---- MODULE Spec2Model ----
(***************************************************************************)
(* A model of the YashaoXen instance orchestration code.                   *)
(*                                                                         *)
(* Several state machines share this module:                                 *)
(*   - the container fleet of yashaoxen/core.py (YashCore) over the        *)
(*     container runtime (variables of coreVars, specification Spec);      *)
(*   - the isolation set-up of lib/security_manager.py over the host's     *)
(*     namespaces, interfaces and profile files (isoVars, SpecIso);        *)
(*   - the tunnel set-up of lib/proxy_handler.py over the host's TUN       *)
(*     devices and routing rules (tunVars, SpecTun);                       *)
(*   - the proxy lists of yashaoxen/proxy.py, lib/proxy_handler.py and     *)
(*     lib/network.py (pmVars; SpecRoundRobin, SpecPm, SpecRace);          *)
(*   - YashCore operations of several command-line processes, one runtime  *)
(*     call at a time (opVars, SpecConcurrent).                            *)
(*                                                                         *)
(* Strings the code takes apart (instance ids, endpoint URLs, container    *)
(* and interface names) are sequences of one-character or one-word tokens. *)
(* A call into the container runtime or into a host command is one step    *)
(* whose outcome (success, failure) the environment chooses.               *)
(***************************************************************************)
EXTENDS Integers, Sequences, FiniteSets, TLC

\* ---------------------------------------------------------------- bounds
\* values of the "earnapp.instances" setting that are explored
MaxInstances == 2
\* container handles the runtime issues in one run
MaxHandle == 2

VARIABLES
    containers,          \* the runtime's containers: records id, name, status, proxy, sec
    nextHandle,          \* the next handle the runtime assigns (also the creation order)
    proxies,             \* YashCore.proxies
    num_instances,       \* config["earnapp"]["instances"]
    token,               \* whether config["earnapp"]["token"] is set
    proxy_verification,  \* safeguards["proxy_verification"]
    lastOp,              \* the operation just performed, what it returned or raised,
                         \* and the endpoints its validation turned down
    hist                 \* the instance last stopped or killed, and what it had then

coreVars == <<containers, nextHandle, proxies, num_instances, token,
              proxy_verification, lastOp, hist>>

VARIABLES
    netns,               \* the host's named network namespaces
    links,               \* the host's interfaces: records name, ns, addr, up
    routes,              \* the namespaces that have a default route
    nat,                 \* how many MASQUERADE rules the nat table holds
    profiles,            \* seccomp and AppArmor profile files, cgroup directories
    isoOp                \* the isolation call just made: who, for whom, how it
                         \* ended, and what it created

isoVars == <<netns, links, routes, nat, profiles, isoOp>>

VARIABLES
    tuns,                \* the host's TUN devices, by name
    tables,              \* the default routes of the routing tables: table, dev
    rules,               \* the policy rules "fwmark m table m", by m
    mangle,              \* the MARK rules of the mangle OUTPUT chain, in order
    active_tunnels,      \* ProxyHandler.active_tunnels: instance id -> tun_name
    assigned,            \* per instance id whose TUN device was set up: the
                         \* tun_name and the table_id its last set-up used
    tunOp                \* the tunnel call just made and how it ended

tunVars == <<tuns, tables, rules, mangle, active_tunnels, assigned, tunOp>>

VARIABLES
    pm_kind,             \* the class of the proxy list object
    pm_file,             \* the lines of the proxy file it was loaded from
    pm_proxies,          \* its proxies list
    current_index,       \* its rotation index
    calls,               \* get_next_proxy calls in progress: where each is, what it read
    ever,                \* the endpoints that were loaded or added at some time
    pmOp                 \* the call just finished and what it returned or raised

pmVars == <<pm_kind, pm_file, pm_proxies, current_index, calls, ever, pmOp>>

VARIABLES
    ops                  \* the YashCore operation each command-line process is in

opVars == <<ops>>

vars == <<coreVars, isoVars, tunVars, pmVars, opVars>>

\* ------------------------------------------------------------ strings
Range(s) == {s[k] : k \in 1..Len(s)}

NoDup(s) == \A j, k \in 1..Len(s) : j # k => s[j] # s[k]

\* the name prefix of every container YashCore makes, as one token
PFX == "yashaoxen_earnapp_"

Digits == <<"0", "1", "2", "3", "4", "5", "6", "7", "8", "9">>

\* str(n) for n >= 0: the decimal digits
RECURSIVE Str(_)
Str(n) == IF n < 10 THEN <<Digits[n + 1]>>
          ELSE Str(n \div 10) \o <<Digits[(n % 10) + 1]>>

\* proxy_url.replace(".", "_")
ReplaceDots(url) == [k \in 1..Len(url) |-> IF url[k] = "." THEN "_" ELSE url[k]]

\* f"yashaoxen_earnapp_{instance_id}"
container_name(instance_id) == <<PFX>> \o instance_id

\* container.name.replace("yashaoxen_earnapp_", ""): every occurrence goes
StripPrefix(name) == SelectSeq(name, LAMBDA t : t # PFX)

\* f"instance_{i+1}"
StartAllId(i) == <<"instance_">> \o Str(i + 1)

\* ------------------------------------------------------------ inputs
\* endpoint URLs; the empty sequence is the empty string (no proxy)
P1 == <<"a", ".", "b">>
P2 == <<"a", "_", "b">>
Endpoints == {P1, P2}
NoProxy == <<>>

\* contents of /etc/yashaoxen/proxies.txt after _load_proxies
ProxyFiles == {<<>>, <<P1>>, <<P1, P1>>, <<P1, P2>>}

\* instance ids the operations are called with
InstanceIds == {StartAllId(i) : i \in 0..(MaxInstances - 1)}
               \cup {ReplaceDots(p) : p \in Endpoints}

\* get_container_security_opts(): the same for every container
SecurityOpts == <<"no-new-privileges=true", "seccomp=unconfined">>

NoHist == [id |-> <<>>, st |-> "none", proxy |-> NoProxy, handle |-> 0]

NoOp == [op |-> "init", res |-> "ok", rejected |-> {}]

\* ------------------------------------------------- the container runtime
Named(cs, name) == {c \in cs : c.name = name}

Container(id, name, status, proxy) ==
    [id |-> id, name |-> name, status |-> status, proxy |-> proxy, sec |-> SecurityOpts]

\* docker_client.containers.run(..., name=, detach=True): create, then start.
\* The runtime refuses a name that is in use (409 Conflict); creation or start
\* may fail for the runtime's own reasons (ro); a failed start leaves the
\* created container behind.
DockerRunReplace(cs, name, proxy, h, ro) ==
    IF ro = "create_fail" THEN [cs |-> cs, res |-> "create_fail", h |-> h]
    ELSE [cs |-> (cs \ Named(cs, name)) \cup {Container(h, name, "running", proxy)},
          res |-> "ok", h |-> h + 1]

DockerRun(cs, name, proxy, h, ro) ==
    IF Named(cs, name) # {} THEN [cs |-> cs, res |-> "conflict", h |-> h]
    ELSE IF ro = "create_fail" THEN [cs |-> cs, res |-> "create_fail", h |-> h]
    ELSE IF ro = "start_fail"
         THEN [cs |-> cs \cup {Container(h, name, "created", proxy)},
               res |-> "start_fail", h |-> h + 1]
    ELSE [cs |-> cs \cup {Container(h, name, "running", proxy)},
          res |-> "ok", h |-> h + 1]

RunOutcomes == {"ok", "create_fail", "start_fail"}

\* container.stop(): a running container exits, any other keeps its status
Stopped(c) == [c EXCEPT !.status = IF @ = "running" THEN "exited" ELSE @]

\* containers.list(all=True, filters={"name": "yashaoxen_earnapp_"}),
\* newest first
RECURSIVE NewestFirst(_)
NewestFirst(cs) ==
    IF cs = {} THEN <<>>
    ELSE LET c == CHOOSE x \in cs : \A y \in cs : y.id <= x.id
         IN <<c>> \o NewestFirst(cs \ {c})

\* ------------------------------------------------------------- YashCore
\* SecurityManager.verify_proxy
verify_proxy(proxy) ==
    IF ~proxy_verification THEN TRUE
    ELSE IF proxy = NoProxy THEN FALSE
    ELSE TRUE

\* YashCore._create_earnapp_container
_create_earnapp_container(cs, instance_id, proxy, h, ro) ==
    IF ~token THEN [cs |-> cs, res |-> "no_token", h |-> h]
    ELSE DockerRun(cs, container_name(instance_id), proxy, h, ro)

\* YashCore.stop_instance: get, stop, remove; any exception gives False
StopOutcomes == {"ok", "stop_fail", "remove_fail"}

stop_instance(cs, instance_id, so) ==
    LET found == Named(cs, container_name(instance_id))
    IN  IF found = {} THEN [cs |-> cs, res |-> "not_found"]
        ELSE LET c == CHOOSE x \in found : TRUE
             IN  IF so = "stop_fail" THEN [cs |-> cs, res |-> "stop_fail"]
                 ELSE IF so = "remove_fail"
                      THEN [cs |-> (cs \ {c}) \cup {Stopped(c)}, res |-> "remove_fail"]
                 ELSE [cs |-> cs \ {c}, res |-> "ok"]

\* YashCore.start_instance: a new container, created without a proxy
start_instance(cs, instance_id, h, ro) ==
    _create_earnapp_container(cs, instance_id, NoProxy, h, ro)

\* the proxy start_all gives instance number i (from 0)
StartAllProxyFirst(i) ==
    IF proxies # <<>> THEN proxies[1] ELSE NoProxy

StartAllProxy(i) ==
    IF proxies # <<>> THEN proxies[(i % Len(proxies)) + 1] ELSE NoProxy

\* YashCore.start_all from instance i on; the creation of instance failAt
\* (from 1; 0 for none) fails with kind, which ends the loop
RECURSIVE start_all(_, _, _, _, _)
start_all(i, cs, h, failAt, kind) ==
    IF i >= num_instances THEN [cs |-> cs, res |-> "ok", h |-> h]
    ELSE LET proxy == StartAllProxy(i)
         IN  IF proxy # NoProxy /\ ~verify_proxy(proxy)
             THEN start_all(i + 1, cs, h, failAt, kind)
             ELSE LET r == _create_earnapp_container(cs, StartAllId(i), proxy, h,
                               IF i + 1 = failAt THEN kind ELSE "ok")
                  IN  IF r.res = "ok" THEN start_all(i + 1, r.cs, r.h, failAt, kind)
                      ELSE r

\* YashCore.rotate_proxy
rotate_proxy_stop_first(cs, instance_id, new_proxy_url, h, so, ro) ==
    LET s == stop_instance(cs, instance_id, so)
        r == start_instance(s.cs, instance_id, h, ro)
    IN  IF proxies = <<>> THEN [cs |-> s.cs, res |-> "no_proxies", h |-> h]
        ELSE IF ~verify_proxy(new_proxy_url)
             THEN [cs |-> s.cs, res |-> "invalid_proxy", h |-> h]
        ELSE [cs |-> r.cs, res |-> "ok", h |-> r.h]

rotate_proxy(cs, instance_id, new_proxy_url, h, so, ro) ==
    IF proxies = <<>> THEN [cs |-> cs, res |-> "no_proxies", h |-> h]
    ELSE IF ~verify_proxy(new_proxy_url)
         THEN [cs |-> cs, res |-> "invalid_proxy", h |-> h]
    ELSE LET s == stop_instance(cs, instance_id, so)
             r == start_instance(s.cs, instance_id, h, ro)
         IN  [cs |-> r.cs, res |-> "ok", h |-> r.h]

RotateOutcomes == {"ok", "stop_fail", "remove_fail", "create_fail", "start_fail"}

\* YashCore.rotate_proxies over the listed instances from position i on (from
\* 0); the rotation at position failAt (from 1; 0 for none) fails with kind
RECURSIVE rotate_proxies(_, _, _, _, _, _, _)
rotate_proxies(i, insts, cs, h, failAt, kind, done) ==
    IF i >= Len(insts) THEN [cs |-> cs, res |-> "ok", h |-> h, done |-> done]
    ELSE LET proxy == proxies[(i % Len(proxies)) + 1]
             name == insts[i + 1]
             k == IF i + 1 = failAt THEN kind ELSE "ok"
         IN  IF ~verify_proxy(proxy)
             THEN rotate_proxies(i + 1, insts, cs, h, failAt, kind, done)
             ELSE LET s == stop_instance(cs, name,
                               IF k \in StopOutcomes THEN k ELSE "ok")
                      r == _create_earnapp_container(s.cs, name, proxy, h,
                               IF k \in RunOutcomes THEN k ELSE "ok")
                  IN  IF s.res # "ok"
                      THEN [cs |-> s.cs, res |-> s.res, h |-> h, done |-> done]
                      ELSE IF r.res # "ok"
                           THEN [cs |-> r.cs, res |-> r.res, h |-> r.h, done |-> done]
                      ELSE rotate_proxies(i + 1, insts, r.cs, r.h, failAt, kind,
                                          done \cup {name})

\* the names list_instances() reports
list_instances(cs) ==
    LET l == NewestFirst({c \in cs : PFX \in Range(c.name)})
    IN  [k \in 1..Len(l) |-> StripPrefix(l[k].name)]

\* YashCore.create_instance
create_instance(cs, proxy_url, h, resources_ok, ro) ==
    IF proxies = <<>> THEN [cs |-> cs, res |-> "no_proxies", h |-> h]
    ELSE IF ~resources_ok THEN [cs |-> cs, res |-> "no_resources", h |-> h]
    ELSE _create_earnapp_container(cs, ReplaceDots(proxy_url), proxy_url, h, ro)

\* ------------------------------------------------- yashaoxen/cli.py
\* ProxyManager.validate_proxy: a probe through the endpoint; ok is the set of
\* endpoints the probe gets an answer through
validate_proxy(proxy, ok) == proxy \in ok

\* the "Validating proxies" step of create_instances
ValidProxiesAll(file, ok) == file

ValidProxies(file, ok) == SelectSeq(file, LAMBDA p : validate_proxy(p, ok))

\* the "Creating instances" loop from position k on (from 1). It walks the
\* list valid while appending to it: every created proxy is walked again.
\* Attempt failAt (from 1) ends in the runtime with kind.
RECURSIVE create_loop(_, _, _, _, _, _, _, _, _)
create_loop(k, valid, cs, h, created, failed, resources_ok, failAt, kind) ==
    IF k > Len(valid)
    THEN [cs |-> cs, h |-> h, created |-> created, failed |-> failed,
          walked |-> Len(valid)]
    ELSE LET r == create_instance(cs, valid[k], h, resources_ok,
                                  IF k = failAt THEN kind ELSE "ok")
         IN  IF r.res = "ok"
             THEN create_loop(k + 1, Append(valid, valid[k]), r.cs, r.h,
                              created + 1, failed, resources_ok, failAt, kind)
             ELSE create_loop(k + 1, valid, r.cs, r.h, created, failed + 1,
                              resources_ok, failAt, kind)

\* cli create_instances over the proxies of file
create_instances(file, ok, cs, h, resources_ok, failAt, kind) ==
    LET valid == ValidProxies(file, ok)
    IN  IF file = <<>>
        THEN [cs |-> cs, h |-> h, res |-> "no_proxies_in_file",
              validated |-> 0, created |-> 0, failed |-> 0, walked |-> 0]
        ELSE IF valid = <<>>
        THEN [cs |-> cs, h |-> h, res |-> "no_valid_proxies",
              validated |-> 0, created |-> 0, failed |-> 0, walked |-> 0]
        ELSE LET r == create_loop(1, valid, cs, h, 0, 0, resources_ok, failAt, kind)
             IN  [cs |-> r.cs, h |-> r.h,
                  res |-> IF r.created = 0 THEN "none_created"
                          ELSE IF r.failed = 0 THEN "all_created"
                          ELSE "some_created",
                  validated |-> Len(valid), created |-> r.created,
                  failed |-> r.failed, walked |-> r.walked]

\* proxy files handed to the cli
CliFiles == {<<>>, <<P1>>, <<P1, P2>>}

\* -------------------------------------------------------------- history
\* what the instance last stopped or killed had at that moment, and whether
\* it has been started again since; any other change to it forgets it
HistStop(cs, instance_id) ==
    LET c == CHOOSE x \in Named(cs, container_name(instance_id)) : TRUE
    IN  IF hist.id = instance_id /\ hist.st = "killed"
        THEN [hist EXCEPT !.st = "killed_stopped"]
        ELSE IF c.status = "running"
             THEN [id |-> instance_id, st |-> "stopped", proxy |-> c.proxy,
                   handle |-> c.id]
        ELSE IF hist.id = instance_id THEN NoHist
        ELSE hist

HistStart(instance_id) ==
    IF hist.id # instance_id THEN hist
    ELSE IF hist.st = "stopped" THEN [hist EXCEPT !.st = "restarted"]
    ELSE IF hist.st = "killed_stopped" THEN [hist EXCEPT !.st = "restarted_after_kill"]
    ELSE NoHist

\* after an operation that took the containers from cs to cs2
HistOther(cs, cs2) ==
    IF Named(cs2, container_name(hist.id)) # Named(cs, container_name(hist.id))
    THEN NoHist ELSE hist

\* ------------------------------------------- lib/security_manager.py
\* the host's own namespace
HostNs == <<"host">>

\* f"netns_{cname}"
NamespaceName(cname) == <<"netns_">> \o cname

\* f"veth0_{namespace}" and f"veth1_{namespace}"
Veth0(namespace) == <<"veth0_">> \o namespace
Veth1(namespace) == <<"veth1_">> \o namespace

\* an interface, and the name of the other end of its veth pair
Link(name, ns, peer) ==
    [name |-> name, ns |-> ns, peer |-> peer, addr |-> "none", up |-> FALSE]

LinksNamed(ls, name, ns) == {l \in ls : l.name = name /\ l.ns = ns}

\* a link is changed where it is
SetLink(ls, name, ns, field, value) ==
    {IF l.name = name /\ l.ns = ns THEN [l EXCEPT ![field] = value] ELSE l : l \in ls}

\* the host state the isolation code works on
Host == [netns |-> netns, links |-> links, routes |-> routes, nat |-> nat,
         profiles |-> profiles]

\* the commands and file writes of setup_container_isolation, in order
IsoSteps == <<"netns_add", "link_add", "link_set_netns", "addr_veth0", "addr_veth1",
              "veth0_up", "veth1_up", "route_add", "ip_forward", "nat",
              "seccomp", "apparmor_write", "apparmor_load", "cgroup">>

\* whether the host lets step go through for cname
IsoStepOk(step, h, cname) ==
    LET ns == NamespaceName(cname)
    IN  CASE step = "netns_add" -> ns \notin h.netns
          [] step = "link_add" ->
                 /\ LinksNamed(h.links, Veth0(ns), HostNs) = {}
                 /\ LinksNamed(h.links, Veth1(ns), HostNs) = {}
          [] step = "link_set_netns" ->
                 LinksNamed(h.links, Veth1(ns), HostNs) # {} /\ ns \in h.netns
          [] step \in {"addr_veth0", "veth0_up"} ->
                 LinksNamed(h.links, Veth0(ns), HostNs) # {}
          [] step = "addr_veth1" ->
                 ns \in h.netns /\ LinksNamed(h.links, Veth1(ns), ns) # {}
          \* the command names the device 'veth1', not the variable veth1
          [] step = "veth1_up" ->
                 ns \in h.netns /\ LinksNamed(h.links, <<"veth1">>, ns) # {}
          [] step = "route_add" -> ns \in h.netns /\ ns \notin h.routes
          [] OTHER -> TRUE

\* the host after step went through
IsoStepDo(step, h, cname) ==
    LET ns == NamespaceName(cname)
    IN  CASE step = "netns_add" -> [h EXCEPT !.netns = @ \cup {ns}]
          [] step = "link_add" ->
                 [h EXCEPT !.links = @ \cup {Link(Veth0(ns), HostNs, Veth1(ns)),
                                              Link(Veth1(ns), HostNs, Veth0(ns))}]
          [] step = "link_set_netns" ->
                 [h EXCEPT !.links = SetLink(@, Veth1(ns), HostNs, "ns", ns)]
          [] step = "addr_veth0" ->
                 [h EXCEPT !.links = SetLink(@, Veth0(ns), HostNs, "addr", "10.0.0.1/24")]
          [] step = "addr_veth1" ->
                 [h EXCEPT !.links = SetLink(@, Veth1(ns), ns, "addr", "10.0.0.2/24")]
          [] step = "veth0_up" ->
                 [h EXCEPT !.links = SetLink(@, Veth0(ns), HostNs, "up", TRUE)]
          [] step = "veth1_up" ->
                 [h EXCEPT !.links = SetLink(@, <<"veth1">>, ns, "up", TRUE)]
          [] step = "route_add" -> [h EXCEPT !.routes = @ \cup {ns}]
          [] step = "nat" -> [h EXCEPT !.nat = @ + 1]
          [] step = "seccomp" ->
                 [h EXCEPT !.profiles = @ \cup {<<"seccomp">> \o cname}]
          [] step = "apparmor_write" ->
                 [h EXCEPT !.profiles = @ \cup {<<"apparmor">> \o cname}]
          [] step = "cgroup" ->
                 [h EXCEPT !.profiles = @ \cup {<<"cgroup">> \o cname}]
          [] OTHER -> h

\* what a host holds that another did not: namespaces, interfaces, files
Artifacts(h) == h.netns \cup {l.name : l \in h.links} \cup h.profiles

\* SecurityManager.setup_container_isolation from step k on: the first step
\* the host turns down, or step failAt (0 for none), raises; the exception is
\* logged and raised again, and what the earlier steps made stays
RECURSIVE setup_container_isolation(_, _, _, _)
setup_container_isolation(k, h, cname, failAt) ==
    IF k > Len(IsoSteps) THEN [host |-> h, res |-> "ok"]
    ELSE IF k = failAt \/ ~IsoStepOk(IsoSteps[k], h, cname)
         THEN [host |-> h, res |-> "raised"]
    ELSE setup_container_isolation(k + 1, IsoStepDo(IsoSteps[k], h, cname),
                                   cname, failAt)

\* ---------------------------------------------------- lib/network.py
\* f"veth_{container_id}" and f"veth_{container_id}_ns"
VethHost(container_id) == <<"veth_">> \o container_id
VethNs(container_id) == <<"veth_">> \o container_id \o <<"_ns">>

\* the os.system commands of setup_network_isolation, in order
NetSteps == <<"netns_add", "link_add", "link_set_netns", "addr_host", "host_up",
              "addr_ns", "ns_up", "route_add">>

NetStepOk(step, h, container_id) ==
    LET ns == NamespaceName(container_id)
    IN  CASE step = "netns_add" -> ns \notin h.netns
          [] step = "link_add" ->
                 /\ LinksNamed(h.links, VethHost(container_id), HostNs) = {}
                 /\ LinksNamed(h.links, VethNs(container_id), HostNs) = {}
          [] step = "link_set_netns" ->
                 /\ LinksNamed(h.links, VethNs(container_id), HostNs) # {}
                 /\ ns \in h.netns
                 /\ LinksNamed(h.links, VethNs(container_id), ns) = {}
          [] step \in {"addr_host", "host_up"} ->
                 LinksNamed(h.links, VethHost(container_id), HostNs) # {}
          [] step \in {"addr_ns", "ns_up"} ->
                 ns \in h.netns /\ LinksNamed(h.links, VethNs(container_id), ns) # {}
          [] step = "route_add" -> ns \in h.netns /\ ns \notin h.routes
          [] OTHER -> TRUE

NetStepDo(step, h, container_id) ==
    LET ns == NamespaceName(container_id)
        vh == VethHost(container_id)
        vn == VethNs(container_id)
    IN  CASE step = "netns_add" -> [h EXCEPT !.netns = @ \cup {ns}]
          [] step = "link_add" ->
                 [h EXCEPT !.links = @ \cup {Link(vh, HostNs, vn), Link(vn, HostNs, vh)}]
          [] step = "link_set_netns" -> [h EXCEPT !.links = SetLink(@, vn, HostNs, "ns", ns)]
          [] step = "addr_host" ->
                 [h EXCEPT !.links = SetLink(@, vh, HostNs, "addr", "10.0.0.1/24")]
          [] step = "host_up" -> [h EXCEPT !.links = SetLink(@, vh, HostNs, "up", TRUE)]
          [] step = "addr_ns" ->
                 [h EXCEPT !.links = SetLink(@, vn, ns, "addr", "10.0.0.2/24")]
          [] step = "ns_up" -> [h EXCEPT !.links = SetLink(@, vn, ns, "up", TRUE)]
          [] step = "route_add" -> [h EXCEPT !.routes = @ \cup {ns}]
          [] OTHER -> h

\* NetworkManager.setup_network_isolation from step k on: os.system raises
\* nothing, so a command the host turns down is passed over and the next
\* one runs
RECURSIVE setup_network_isolation(_, _, _)
setup_network_isolation(k, h, container_id) ==
    IF k > Len(NetSteps) THEN [host |-> h, res |-> "ok"]
    ELSE IF ~NetStepOk(NetSteps[k], h, container_id)
         THEN setup_network_isolation(k + 1, h, container_id)
    ELSE setup_network_isolation(k + 1, NetStepDo(NetSteps[k], h, container_id),
                                 container_id)

\* "ip link delete": the interface goes, and the other end of its pair
LinkDelete(h, name) ==
    LET gone == LinksNamed(h.links, name, HostNs)
    IN  [h EXCEPT !.links = {l \in @ : l \notin gone
                                        /\ l.name \notin {g.peer : g \in gone}}]

\* "ip netns delete": the namespace goes, with its routes, the interfaces in
\* it and the other ends of their pairs
NetnsDelete(h, ns) ==
    IF ns \notin h.netns THEN h
    ELSE LET gone == {l \in h.links : l.ns = ns}
         IN  [h EXCEPT !.netns = @ \ {ns},
                       !.links = {l \in @ : l \notin gone
                                            /\ l.name \notin {g.peer : g \in gone}},
                       !.routes = @ \ {ns}]

\* NetworkManager.cleanup_network_isolation
cleanup_network_isolation(h, container_id) ==
    NetnsDelete(LinkDelete(h, VethHost(container_id)), NamespaceName(container_id))

\* container names and ids the isolation code is called with
IsoNames == {<<"a">>, <<"a", "_ns">>}

NoIsoOp == [op |-> "init", name |-> <<>>, res |-> "ok", made |-> {}]

\* ---------------------------------------------- lib/proxy_handler.py
\* instance_id[-4:]
Last4(instance_id) ==
    IF Len(instance_id) <= 4 THEN instance_id
    ELSE SubSeq(instance_id, Len(instance_id) - 3, Len(instance_id))

\* f"tun{instance_id[-4:]}"
TunName(instance_id) == <<"tun">> \o Last4(instance_id)

\* random.randint(100, 200)
TableIdMin == 100
TableIdMax == 200

\* the draws of random.randint that are explored
TableDraws == {TableIdMin, TableIdMax}

\* the host state the tunnel code works on
Tunnels == [tuns |-> tuns, tables |-> tables, rules |-> rules, mangle |-> mangle]

\* the commands of _create_tun_device and _setup_routing, then _start_tunsocks
TunSteps == <<"tuntap_add", "link_up", "addr_add", "echo_rt_tables", "route_add",
              "rule_add", "iptables_mark", "start_tunsocks">>

\* whether step goes through. "ip tuntap add" of a device that is there and
\* that no process holds attaches to it; "ip route add" refuses a second
\* default route in a table, "ip rule add" a rule that is there;
\* _start_tunsocks raises NameError (it says true for True) before it has
\* done anything
TunStepOk(step, t, tun_name, table_id) ==
    CASE step \in {"link_up", "addr_add"} -> tun_name \in t.tuns
      [] step = "route_add" ->
             tun_name \in t.tuns /\ \A r \in t.tables : r.table # table_id
      [] step = "rule_add" -> table_id \notin t.rules
      [] step = "start_tunsocks" -> FALSE
      [] OTHER -> TRUE

TunStepDo(step, t, tun_name, table_id) ==
    CASE step = "tuntap_add" -> [t EXCEPT !.tuns = @ \cup {tun_name}]
      [] step = "route_add" ->
             [t EXCEPT !.tables = @ \cup {[table |-> table_id, dev |-> tun_name]}]
      [] step = "rule_add" -> [t EXCEPT !.rules = @ \cup {table_id}]
      [] step = "iptables_mark" -> [t EXCEPT !.mangle = Append(@, table_id)]
      [] OTHER -> t

\* the steps of setup_proxy from k on with table_id drawn: the first step
\* that does not go through, or step failAt (0 for none), raises, and
\* setup_proxy returns False with the earlier steps' work left in place
RECURSIVE tun_steps(_, _, _, _, _)
tun_steps(k, t, tun_name, table_id, failAt) ==
    IF k > Len(TunSteps) THEN [t |-> t, res |-> "ok", at |-> k]
    ELSE IF k = failAt \/ ~TunStepOk(TunSteps[k], t, tun_name, table_id)
         THEN [t |-> t, res |-> "false", at |-> k]
    ELSE tun_steps(k + 1, TunStepDo(TunSteps[k], t, tun_name, table_id),
                   tun_name, table_id, failAt)

\* ProxyHandler.setup_proxy
setup_proxy(t, instance_id, table_id, failAt) ==
    tun_steps(1, t, TunName(instance_id), table_id, failAt)

\* ProxyHandler.cleanup_tunnel: nothing for an instance it does not track;
\* else the device goes (and its routes with it), and the rule is deleted
\* for int(tun_name[3:])
cleanup_tunnel(t, tracked, instance_id) ==
    IF \A a \in tracked : a.inst # instance_id THEN [t |-> t, res |-> "untracked"]
    ELSE LET tun_name == TunName(instance_id)
         IN  [t |-> [t EXCEPT !.tuns = @ \ {tun_name},
                              !.tables = {r \in @ : r.dev # tun_name}],
              res |-> "ok"]

\* instance ids the tunnel code is called with
TunIds == {<<"x", "0", "0", "0", "1">>, <<"y", "0", "0", "0", "1">>,
           <<"x", "0", "0", "0", "2">>}

NoTunOp == [op |-> "init", inst |-> <<>>, res |-> "ok"]

\* ------------------------------------------------------------- actions
InitCore ==
    /\ containers = {}
    /\ nextHandle = 1
    /\ proxies \in ProxyFiles
    /\ num_instances \in 1..MaxInstances
    /\ token \in BOOLEAN
    /\ proxy_verification \in BOOLEAN
    /\ lastOp = NoOp
    /\ hist = NoHist

Config == <<proxies, num_instances, token, proxy_verification>>

\* the runtime's part of a step: the containers and the handle counter after
\* an operation that gave r
Runtime(r) ==
    /\ r.h <= MaxHandle + 1
    /\ containers' = r.cs
    /\ nextHandle' = r.h
    /\ UNCHANGED <<Config, isoVars, tunVars, pmVars, opVars>>

StartAllOp(track) ==
    \E failAt \in 0..num_instances, kind \in {"create_fail", "start_fail"} :
        LET r == start_all(0, containers, nextHandle, failAt, kind)
        IN  /\ Runtime(r)
            /\ lastOp' = [op |-> "start_all", res |-> r.res, rejected |-> {}]
            /\ hist' = IF track THEN HistOther(containers, r.cs) ELSE hist

\* create_instance(p) when the resources are (not) there and the runtime
\* answers ro
CreateInstanceWith(p, resources_ok, ro, track) ==
    LET r == create_instance(containers, p, nextHandle, resources_ok, ro)
    IN  /\ Runtime(r)
        /\ lastOp' = [op |-> "create_instance", res |-> r.res, rejected |-> {}]
        /\ hist' = IF track THEN HistOther(containers, r.cs) ELSE hist

CreateInstanceOp(track) ==
    \E p \in Endpoints, resources_ok \in BOOLEAN, ro \in RunOutcomes :
        CreateInstanceWith(p, resources_ok, ro, track)

StopInstanceOp(track) ==
    \E i \in InstanceIds, so \in StopOutcomes :
        LET r == stop_instance(containers, i, so)
        IN  /\ containers' = r.cs
            /\ lastOp' = [op |-> "stop_instance", res |-> r.res, rejected |-> {}]
            /\ hist' = IF ~track THEN hist
                       ELSE IF r.res = "ok" THEN HistStop(containers, i)
                       ELSE HistOther(containers, r.cs)
            /\ UNCHANGED <<nextHandle, Config, isoVars, tunVars, pmVars, opVars>>

StartInstanceOp(track) ==
    \E i \in InstanceIds, ro \in RunOutcomes :
        LET r == start_instance(containers, i, nextHandle, ro)
        IN  /\ Runtime(r)
            /\ lastOp' = [op |-> "start_instance", res |-> r.res, rejected |-> {}]
            /\ hist' = IF ~track THEN hist
                       ELSE IF r.res = "ok" THEN HistStart(i)
                       ELSE HistOther(containers, r.cs)

\* rotate_proxy(i, p) when the one runtime call that fails, if any, is kind
RotateProxyWith(i, p, kind) ==
    LET r == rotate_proxy(containers, i, p, nextHandle,
                          IF kind \in StopOutcomes THEN kind ELSE "ok",
                          IF kind \in RunOutcomes THEN kind ELSE "ok")
    IN  /\ Runtime(r)
        /\ lastOp' = [op |-> "rotate_proxy", res |-> r.res,
                       rejected |-> IF r.res = "invalid_proxy" THEN {p} ELSE {}]
        /\ hist' = hist

RotateProxy ==
    \E i \in InstanceIds, p \in Endpoints \cup {NoProxy}, kind \in RotateOutcomes :
        RotateProxyWith(i, p, kind)

RotateProxies ==
    /\ proxies # <<>>
    /\ LET insts == list_instances(containers)
       IN  \E failAt \in 0..Len(insts), kind \in RotateOutcomes \ {"ok"} :
               LET r == rotate_proxies(0, insts, containers, nextHandle, failAt, kind, {})
               IN  /\ Runtime(r)
                   /\ lastOp' = [op |-> "rotate_proxies", res |-> r.res,
                                  rejected |-> {}]
                   /\ hist' = hist

\* cli create_instances
CreateInstances ==
    \E file \in CliFiles, ok \in SUBSET Endpoints,
       kind \in RunOutcomes \cup {"no_resources"} :
        LET r == create_instances(file, ok, containers, nextHandle,
                                  kind # "no_resources", 1, kind)
        IN  /\ Runtime(r)
            /\ lastOp' = [op |-> "create_instances", res |-> r.res,
                           rejected |-> Range(file) \ ok,
                           validated |-> r.validated, created |-> r.created,
                           failed |-> r.failed, walked |-> r.walked]
            /\ hist' = hist

\* the container behind an instance is killed from outside the program
ExternalKillOp(track) ==
    \E c \in containers :
        /\ c.status = "running"
        /\ containers' = (containers \ {c}) \cup {[c EXCEPT !.status = "exited"]}
        /\ lastOp' = [op |-> "kill", res |-> "ok", rejected |-> {}]
        /\ hist' = IF track
                   THEN [id |-> StripPrefix(c.name), st |-> "killed",
                         proxy |-> c.proxy, handle |-> c.id]
                   ELSE hist
        /\ UNCHANGED <<nextHandle, Config, isoVars, tunVars, pmVars, opVars>>

StartAll == StartAllOp(FALSE)
CreateInstance == CreateInstanceOp(FALSE)
StopInstance == StopInstanceOp(FALSE)
StartInstance == StartInstanceOp(FALSE)
ExternalKill == ExternalKillOp(FALSE)

\* ------------------------------------------------ isolation actions
InitIso ==
    /\ netns = {}
    /\ links = {}
    /\ routes = {}
    /\ nat = 0
    /\ profiles = {}
    /\ isoOp = NoIsoOp

\* the host after an isolation call that gave r
HostBecomes(r) ==
    /\ netns' = r.host.netns
    /\ links' = r.host.links
    /\ routes' = r.host.routes
    /\ nat' = r.host.nat
    /\ profiles' = r.host.profiles

SetupContainerIsolation ==
    \E cname \in IsoNames, failAt \in 0..Len(IsoSteps) :
        LET r == setup_container_isolation(1, Host, cname, failAt)
        IN  /\ HostBecomes(r)
            /\ isoOp' = [op |-> "setup_container_isolation", name |-> cname,
                          res |-> r.res,
                          made |-> Artifacts(r.host) \ Artifacts(Host)]
            /\ UNCHANGED <<coreVars, tunVars, pmVars, opVars>>

SetupNetworkIsolation ==
    \E container_id \in IsoNames :
        LET r == setup_network_isolation(1, Host, container_id)
        IN  /\ HostBecomes(r)
            /\ isoOp' = [op |-> "setup_network_isolation", name |-> container_id,
                          res |-> r.res,
                          made |-> Artifacts(r.host) \ Artifacts(Host)]
            /\ UNCHANGED <<coreVars, tunVars, pmVars, opVars>>

CleanupNetworkIsolation ==
    \E container_id \in IsoNames :
        LET h == cleanup_network_isolation(Host, container_id)
        IN  /\ HostBecomes([host |-> h])
            /\ isoOp' = [op |-> "cleanup_network_isolation", name |-> container_id,
                          res |-> "ok", made |-> {}]
            /\ UNCHANGED <<coreVars, tunVars, pmVars, opVars>>

NextIso ==
    \/ SetupContainerIsolation
    \/ SetupNetworkIsolation
    \/ CleanupNetworkIsolation

\* the command-line processes that may run at the same time
Procs == {1, 2}

NoCall == [at |-> "idle", idx |-> 0, nxt |-> 0, ret |-> <<>>]

NoPmOp == [op |-> "init", res |-> "ok", idx |-> 0, ret |-> <<>>]

\* no proxy list object
PmIdle ==
    /\ pm_kind = "none"
    /\ pm_file = <<>>
    /\ pm_proxies = <<>>
    /\ current_index = 0
    /\ calls = [p \in Procs |-> NoCall]
    /\ ever = {}
    /\ pmOp = NoPmOp

NoProc == [op |-> "idle", id |-> <<>>, at |-> 0, handle |-> 0]

\* no operation in progress
OpsIdle == ops = [p \in Procs |-> NoProc]

\* no fleet: the isolation code runs on its own
CoreIdle ==
    /\ containers = {}
    /\ nextHandle = 1
    /\ proxies = <<>>
    /\ num_instances = 1
    /\ token = FALSE
    /\ proxy_verification = TRUE
    /\ lastOp = NoOp
    /\ hist = NoHist

\* --------------------------------------------------- tunnel actions
InitTun ==
    /\ tuns = {}
    /\ tables = {}
    /\ rules = {}
    /\ mangle = <<>>
    /\ active_tunnels = {}
    /\ assigned = {}
    /\ tunOp = NoTunOp

\* the host after a tunnel call that gave r
TunnelsBecome(r) ==
    /\ tuns' = r.t.tuns
    /\ tables' = r.t.tables
    /\ rules' = r.t.rules
    /\ mangle' = r.t.mangle

SetupProxy ==
    \E instance_id \in TunIds, table_id \in TableDraws, failAt \in 0..Len(TunSteps) :
        LET r == setup_proxy(Tunnels, instance_id, table_id, failAt)
            tun_name == TunName(instance_id)
        IN  /\ TunnelsBecome(r)
            /\ active_tunnels' =
                   IF r.res = "ok"
                   THEN {a \in active_tunnels : a.inst # instance_id}
                        \cup {[inst |-> instance_id, tun_name |-> tun_name]}
                   ELSE active_tunnels
            /\ assigned' =
                   IF r.at > 1
                   THEN {a \in assigned : a.inst # instance_id}
                        \cup {[inst |-> instance_id, tun_name |-> tun_name,
                                table_id |-> IF r.at > 4 THEN table_id ELSE 0]}
                   ELSE assigned
            /\ tunOp' = [op |-> "setup_proxy", inst |-> instance_id, res |-> r.res]
            /\ UNCHANGED <<coreVars, isoVars, pmVars, opVars>>

CleanupTunnel ==
    \E instance_id \in TunIds :
        LET r == cleanup_tunnel(Tunnels, active_tunnels, instance_id)
        IN  /\ TunnelsBecome(r)
            /\ active_tunnels' = {a \in active_tunnels : a.inst # instance_id}
            /\ assigned' = IF r.res = "ok"
                            THEN {a \in assigned : a.inst # instance_id}
                            ELSE assigned
            /\ tunOp' = [op |-> "cleanup_tunnel", inst |-> instance_id, res |-> r.res]
            /\ UNCHANGED <<coreVars, isoVars, pmVars, opVars>>

NextTun ==
    \/ SetupProxy
    \/ CleanupTunnel

IsoAlone == InitIso /\ InitTun /\ CoreIdle /\ PmIdle /\ OpsIdle

SpecIso == IsoAlone /\ [][NextIso]_vars

TunAlone == InitTun /\ InitIso /\ CoreIdle /\ PmIdle /\ OpsIdle

SpecTun == TunAlone /\ [][NextTun]_vars

Init == InitCore /\ InitIso /\ InitTun /\ PmIdle /\ OpsIdle

\* the fleet: provisioning, and the instances coming and going
Next ==
    \/ StartAll
    \/ CreateInstance
    \/ StopInstance
    \/ StartInstance
    \/ ExternalKill

Spec == Init /\ [][Next]_vars

\* rotation over a provisioned fleet
NextRotate ==
    \/ StartAll
    \/ CreateInstances
    \/ RotateProxy
    \/ RotateProxies
    \/ ExternalKill

SpecRotate == Init /\ [][NextRotate]_vars

\* stop and start of an instance, with the history of the stopped instance
NextRestart ==
    \/ StartAllOp(TRUE)
    \/ StopInstanceOp(TRUE)
    \/ StartInstanceOp(TRUE)
    \/ ExternalKillOp(TRUE)

SpecRestart == Init /\ [][NextRestart]_vars

\* ------------------------------------------------------------ teardown
\* YashCore.stop_all from entry k of the listing on: stop, then remove. The
\* first stop or remove that fails (entry failAt, 0 for none) raises out of
\* the loop; the entries behind it are not looked at.
RECURSIVE stop_loop(_, _, _, _, _)
stop_loop(k, listed, cs, failAt, kind) ==
    IF k > Len(listed) THEN [cs |-> cs, res |-> "ok"]
    ELSE IF k = failAt
         THEN [cs |-> IF kind = "remove_fail"
                      THEN (cs \ {listed[k]}) \cup {Stopped(listed[k])}
                      ELSE cs,
               res |-> kind]
    ELSE stop_loop(k + 1, listed, cs \ {listed[k]}, failAt, kind)

\* YashCore.stop_all: containers.list(filters=name) without all=True gives
\* the running containers only
stop_all(cs, failAt, kind) ==
    stop_loop(1, NewestFirst({c \in cs : PFX \in Range(c.name) /\ c.status = "running"}),
              cs, failAt, kind)

StopAll ==
    \E failAt \in 0..MaxInstances, kind \in {"stop_fail", "remove_fail"} :
        LET r == stop_all(containers, failAt, kind)
        IN  /\ containers' = r.cs
            /\ lastOp' = [op |-> "stop_all", res |-> r.res, rejected |-> {}]
            /\ UNCHANGED <<nextHandle, hist, Config, isoVars, tunVars, pmVars, opVars>>

\* the fleet brought up and torn down
NextTeardown ==
    \/ StartAll
    \/ StopAll
    \/ StopInstance
    \/ ExternalKill

SpecTeardown == Init /\ [][NextTeardown]_vars

\* ------------------------------------------- operations in progress
\* Each command (yashaoxen stop / rotate-proxy) is a process of its own with
\* its own YashCore; the container runtime is what the processes share. An
\* operation is the sequence of its calls into the runtime:
\*   stop_instance: containers.get (1), container.stop (2), container.remove (3)
\*   rotate_proxy:  the same three, then start_instance's containers.run (4)
\* The runtime answers every call of this machine; its failures are in the
\* one-step operations above.

\* process p is done: back to idle, the result noted
Done(p, op, res) ==
    /\ ops' = [ops EXCEPT ![p] = NoProc]
    /\ lastOp' = [op |-> op, res |-> res, rejected |-> {}]

\* what follows a stop_instance that returned: rotate_proxy goes on to
\* start_instance whatever stop_instance returned
AfterStop(p, op, i, res) ==
    IF op = "rotate_proxy"
    THEN /\ ops' = [ops EXCEPT ![p] = [op |-> op, id |-> i, at |-> 4, handle |-> 0]]
         /\ UNCHANGED lastOp
    ELSE Done(p, op, res)

\* the first call of an operation: containers.get(name). rotate_proxy gets
\* here only with a proxy list loaded and an endpoint verify_proxy accepts.
OpBegin(p) ==
    \E op \in {"stop_instance", "rotate_proxy"}, i \in InstanceIds :
        /\ ops[p] = NoProc
        /\ op = "rotate_proxy" => proxies # <<>> /\ \E e \in Endpoints : verify_proxy(e)
        /\ IF Named(containers, container_name(i)) = {}
           THEN AfterStop(p, op, i, "not_found")
           ELSE /\ ops' = [ops EXCEPT ![p] =
                              [op |-> op, id |-> i, at |-> 2,
                               handle |-> (CHOOSE c \in Named(containers, container_name(i)) : TRUE).id]]
                /\ UNCHANGED lastOp
        /\ UNCHANGED <<containers, nextHandle, hist, Config, isoVars, tunVars, pmVars>>

\* container.stop() on the container that was fetched: NotFound if it has
\* been removed since
OpStop(p) ==
    /\ ops[p].at = 2
    /\ LET mine == {c \in containers : c.id = ops[p].handle}
       IN  IF mine = {}
           THEN /\ AfterStop(p, ops[p].op, ops[p].id, "stop_fail")
                /\ UNCHANGED containers
           ELSE /\ containers' = (containers \ mine) \cup {Stopped(c) : c \in mine}
                /\ ops' = [ops EXCEPT ![p].at = 3]
                /\ UNCHANGED lastOp
    /\ UNCHANGED <<nextHandle, hist, Config, isoVars, tunVars, pmVars>>

\* container.remove()
OpRemove(p) ==
    /\ ops[p].at = 3
    /\ LET mine == {c \in containers : c.id = ops[p].handle}
       IN  /\ containers' = containers \ mine
           /\ AfterStop(p, ops[p].op, ops[p].id,
                        IF mine = {} THEN "remove_fail" ELSE "ok")
    /\ UNCHANGED <<nextHandle, hist, Config, isoVars, tunVars, pmVars>>

\* rotate_proxy's start_instance; rotate_proxy returns True whatever it gave
OpStart(p) ==
    /\ ops[p].at = 4
    /\ LET r == start_instance(containers, ops[p].id, nextHandle, "ok")
       IN  /\ r.h <= MaxHandle + 1
           /\ containers' = r.cs
           /\ nextHandle' = r.h
    /\ Done(p, "rotate_proxy", "ok")
    /\ UNCHANGED <<hist, Config, isoVars, tunVars, pmVars>>

OpStep == \E p \in Procs : OpBegin(p) \/ OpStop(p) \/ OpRemove(p) \/ OpStart(p)

\* the fleet with two command-line processes at work on it
NextConcurrent ==
    \/ StartAll
    \/ OpStep

SpecConcurrent == Init /\ [][NextConcurrent]_vars

\* ------------------------------------------------- the proxy lists
\* ProxyManager (yashaoxen/proxy.py), ProxyHandler (lib/proxy_handler.py)
\* and NetworkManager (lib/network.py) each keep a list of proxies and an
\* index into it.
PmKinds == {"ProxyManager", "ProxyHandler", "NetworkManager"}

\* lines of a proxy file: host:port:username:password twice, and host:port
G1 == <<"h1", ":", "p", ":", "u", ":", "w">>
G2 == <<"h2", ":", "p", ":", "u", ":", "w">>
B1 == <<"h3", ":", "p">>
PmLines == {G1, G2, B1}

\* lines in a proxy file
MaxLines == 3

PmFiles == UNION {[1..n -> PmLines] : n \in 0..MaxLines}

\* line.split(':')
RECURSIVE Split(_)
Split(line) ==
    IF \A k \in 1..Len(line) : line[k] # ":" THEN <<line>>
    ELSE LET k == CHOOSE x \in 1..Len(line) :
                      line[x] = ":" /\ \A j \in 1..(x - 1) : line[j] # ":"
         IN  <<SubSeq(line, 1, k - 1)>> \o Split(SubSeq(line, k + 1, Len(line)))

\* host, port, username, password = line.strip().split(':') goes through
Unpacks(line) == Len(Split(line)) = 4

\* the entry NetworkManager keeps for a line
ProxyDict(line) ==
    LET f == Split(line)
    IN  [host |-> f[1], port |-> f[2], username |-> f[3], password |-> f[4]]

\* the entries of list l that are in set s, in order
RECURSIVE Keep(_, _)
Keep(l, s) ==
    IF l = <<>> THEN <<>>
    ELSE (IF Head(l) \in s THEN <<Head(l)>> ELSE <<>>) \o Keep(Tail(l), s)

\* _load_proxies of the three classes; ok are the lines ProxyHandler's
\* validate_proxy reaches earnapp.com through.
\*   ProxyManager: every non-empty line, as it is
\*   ProxyHandler: the lines that validate; ValueError if there is none
\*   NetworkManager: a dict per line; any line that does not unpack into
\*     four fields raises inside the loop and the method returns []
_load_proxies(kind, file, ok) ==
    CASE kind = "ProxyManager" -> [list |-> file, res |-> "ok"]
      [] kind = "ProxyHandler" ->
             IF Keep(file, ok) = <<>> THEN [list |-> <<>>, res |-> "raised"]
             ELSE [list |-> Keep(file, ok), res |-> "ok"]
      [] kind = "NetworkManager" ->
             IF \A k \in 1..Len(file) : Unpacks(file[k])
             THEN [list |-> [k \in 1..Len(file) |-> ProxyDict(file[k])], res |-> "ok"]
             ELSE [list |-> <<>>, res |-> "ok"]

\* what get_next_proxy hands out for an entry: NetworkManager formats a
\* URL from the dict, the others return the line
Handout(kind, entry) ==
    IF kind = "NetworkManager"
    THEN <<"http://">> \o entry.username \o <<":">> \o entry.password \o <<"@">>
         \o entry.host \o <<":">> \o entry.port
    ELSE entry

\* get_next_proxy without the wrap-around
get_next_proxy_nowrap(kind, list, index) ==
    IF list = <<>>
    THEN [res |-> IF kind = "ProxyManager" THEN "none" ELSE "raised",
          idx |-> index, ret |-> <<>>, index |-> index]
    ELSE IF index >= Len(list)
         THEN [res |-> "index_error", idx |-> index, ret |-> <<>>, index |-> index]
    ELSE [res |-> "ok", idx |-> index, ret |-> Handout(kind, list[index + 1]),
          index |-> index + 1]

\* get_next_proxy of the three classes (the index counts from 0). With an
\* empty list ProxyManager returns None, the other two raise ValueError.
get_next_proxy(kind, list, index) ==
    IF list = <<>>
    THEN [res |-> IF kind = "ProxyManager" THEN "none" ELSE "raised",
          idx |-> index, ret |-> <<>>, index |-> index]
    ELSE IF index >= Len(list)
         THEN [res |-> "index_error", idx |-> index, ret |-> <<>>, index |-> index]
    ELSE [res |-> "ok", idx |-> index, ret |-> Handout(kind, list[index + 1]),
          index |-> (index + 1) % Len(list)]

\* a proxy list object is constructed: __init__ and _load_proxies
InitPm ==
    \E kind \in PmKinds, file \in PmFiles,
       ok \in SUBSET {l \in PmLines : Unpacks(l)} :
        LET r == _load_proxies(kind, file, ok)
        IN  /\ pm_kind = kind
            /\ pm_file = file
            /\ pm_proxies = r.list
            /\ current_index = 0
            /\ calls = [p \in Procs |-> NoCall]
            /\ ever = Range(r.list)
            /\ pmOp = [op |-> "load", res |-> r.res, idx |-> 0, ret |-> <<>>]

\* the constructor returned an object
Constructed == ~(pmOp.op = "load" /\ pmOp.res = "raised")

GetNextProxy ==
    /\ Constructed
    /\ LET r == get_next_proxy(pm_kind, pm_proxies, current_index)
       IN  /\ current_index' = r.index
           /\ pmOp' = [op |-> "get_next_proxy", res |-> r.res, idx |-> r.idx,
                        ret |-> r.ret]
    /\ UNCHANGED <<pm_kind, pm_file, pm_proxies, calls, ever, coreVars, isoVars,
                   tunVars, opVars>>

\* the list object alone
PmAlone == InitPm /\ InitIso /\ InitTun /\ CoreIdle /\ OpsIdle

\* a list that nothing changes, asked for the next proxy over and over
NextRoundRobin == GetNextProxy

SpecRoundRobin == PmAlone /\ [][NextRoundRobin]_vars

\* get_next_proxy called from two threads on one object. The method has no
\* lock; its reads and its write of current_index are steps of their own:
\*   proxy = self.proxies[self.current_index]                  (CallRead)
\*   ... (self.current_index + 1) % len(self.proxies)          (CallCompute)
\*   self.current_index = ...; return proxy                    (CallWrite)
CallRead(p) ==
    /\ Constructed
    /\ calls[p].at = "idle"
    /\ pm_proxies # <<>>
    /\ current_index < Len(pm_proxies)
    /\ calls' = [calls EXCEPT ![p] =
                    [at |-> "read", idx |-> current_index, nxt |-> 0,
                     ret |-> Handout(pm_kind, pm_proxies[current_index + 1])]]
    /\ UNCHANGED <<pm_kind, pm_file, pm_proxies, current_index, ever, pmOp,
                   coreVars, isoVars, tunVars, opVars>>

CallCompute(p) ==
    /\ calls[p].at = "read"
    /\ calls' = [calls EXCEPT ![p].at = "computed",
                              ![p].nxt = (current_index + 1) % Len(pm_proxies)]
    /\ UNCHANGED <<pm_kind, pm_file, pm_proxies, current_index, ever, pmOp,
                   coreVars, isoVars, tunVars, opVars>>

CallWrite(p) ==
    /\ calls[p].at = "computed"
    /\ current_index' = calls[p].nxt
    /\ calls' = [calls EXCEPT ![p].at = "returned"]
    /\ pmOp' = [op |-> "get_next_proxy", res |-> "ok", idx |-> calls[p].idx,
                 ret |-> calls[p].ret]
    /\ UNCHANGED <<pm_kind, pm_file, pm_proxies, ever, coreVars, isoVars,
                   tunVars, opVars>>

NextRace == \E p \in Procs : CallRead(p) \/ CallCompute(p) \/ CallWrite(p)

SpecRace == PmAlone /\ [][NextRace]_vars

\* ProxyManager.add_proxy: a proxy that validates is appended unless it is
\* in the list already; one that does not validate raises ValueError
add_proxy(list, proxy_url, valid) ==
    IF ~valid THEN [list |-> list, res |-> "raised"]
    ELSE IF proxy_url \in Range(list) THEN [list |-> list, res |-> "ok"]
    ELSE [list |-> Append(list, proxy_url), res |-> "ok"]

\* list.remove(x): the first entry equal to x goes
RECURSIVE ListRemove(_, _)
ListRemove(list, x) ==
    IF list = <<>> THEN <<>>
    ELSE IF Head(list) = x THEN Tail(list)
    ELSE <<Head(list)>> \o ListRemove(Tail(list), x)

\* ProxyManager.remove_proxy
remove_proxy(list, proxy_url) ==
    IF proxy_url \in Range(list) THEN ListRemove(list, proxy_url) ELSE list

\* ProxyManager.cleanup_dead_proxies: the list becomes the entries whose
\* health check passes (healthy)
cleanup_dead_proxies(list, healthy) == Keep(list, healthy)

\* the three leave current_index as it is
AddProxy ==
    \E proxy_url \in PmLines, valid \in BOOLEAN :
        LET r == add_proxy(pm_proxies, proxy_url, valid)
        IN  /\ pm_kind = "ProxyManager"
            /\ pm_proxies' = r.list
            /\ ever' = ever \cup Range(r.list)
            /\ pmOp' = [op |-> "add_proxy", res |-> r.res, idx |-> 0, ret |-> <<>>]
            /\ UNCHANGED <<pm_kind, pm_file, current_index, calls, coreVars, isoVars,
                           tunVars, opVars>>

RemoveProxy ==
    \E proxy_url \in PmLines :
        /\ pm_kind = "ProxyManager"
        /\ pm_proxies' = remove_proxy(pm_proxies, proxy_url)
        /\ pmOp' = [op |-> "remove_proxy", res |-> "ok", idx |-> 0, ret |-> <<>>]
        /\ UNCHANGED <<pm_kind, pm_file, current_index, calls, ever, coreVars, isoVars,
                       tunVars, opVars>>

CleanupDeadProxies ==
    \E healthy \in SUBSET PmLines :
        /\ pm_kind = "ProxyManager"
        /\ pm_proxies' = cleanup_dead_proxies(pm_proxies, healthy)
        /\ pmOp' = [op |-> "cleanup_dead_proxies", res |-> "ok", idx |-> 0, ret |-> <<>>]
        /\ UNCHANGED <<pm_kind, pm_file, current_index, calls, ever, coreVars, isoVars,
                       tunVars, opVars>>

\* a proxy list in use and under maintenance
NextPm ==
    \/ GetNextProxy
    \/ AddProxy
    \/ RemoveProxy
    \/ CleanupDeadProxies

SpecPm == PmAlone /\ [][NextPm]_vars

\* ------------------------------------------------ order of teardown
\* the host resources of tunnel a that are on host t, in the order
\* _create_tun_device and _setup_routing make them
CreatedOrder(t, a) ==
    Keep(<<"tun", "route", "rule", "mark">>,
         {x \in {"tun"} : a.tun_name \in t.tuns}
         \cup {x \in {"route"} : \E r \in t.tables :
                                     r.dev = a.tun_name /\ r.table = a.table_id}
         \cup {x \in {"rule"} : a.table_id \in t.rules}
         \cup {x \in {"mark"} : a.table_id \in Range(t.mangle)})

\* what cleanup_tunnel takes off host t for tunnel a, in the order it does:
\* nothing for an instance that is not in active_tunnels; else the device,
\* its routes going with it, and then the rule and the mark numbered
\* int(tun_name[3:]), which are not the ones _setup_routing made under the
\* table id it drew
cleanup_order(t, tracked, a) ==
    IF \A x \in tracked : x.inst # a.inst THEN <<>>
    ELSE Keep(<<"tun", "route">>,
              {x \in {"tun"} : a.tun_name \in t.tuns}
              \cup {x \in {"route"} : \E r \in t.tables : r.dev = a.tun_name})

\* a sequence back to front
Reverse(s) == [k \in 1..Len(s) |-> s[Len(s) + 1 - k]]

\* ------------------------------------------------ the seccomp profile
\* the "names" of the one rule of the profile _setup_seccomp_profile writes
\* (action SCMP_ACT_ALLOW; the default action is SCMP_ACT_ERRNO)
SeccompNames ==
    {"accept", "bind", "connect", "socket", "read", "write", "close",
     "fstat", "lseek", "mmap", "mprotect", "munmap", "brk", "rt_sigaction",
     "rt_sigprocmask", "rt_sigreturn", "ioctl", "access", "pipe", "select",
     "mremap", "sched_yield", "msync", "mincore", "madvise", "shmget",
     "shmat", "shmctl", "dup", "dup2", "pause", "nanosleep", "getitimer",
     "alarm", "setitimer", "getpid", "sendfile", "sendto", "recvfrom",
     "sendmsg", "recvmsg", "shutdown", "listen", "getsockname",
     "getpeername", "socketpair", "setsockopt", "getsockopt", "clone",
     "fork", "vfork", "execve", "exit", "wait4", "kill", "uname", "semget",
     "semop", "semctl", "shmdt", "msgget", "msgsnd", "msgrcv", "msgctl",
     "fcntl", "flock", "fsync", "fdatasync", "truncate", "ftruncate",
     "getcwd", "chdir", "fchdir", "rename", "mkdir", "rmdir", "creat",
     "link", "unlink", "symlink", "readlink", "chmod", "fchmod", "chown",
     "fchown", "lchown", "umask", "gettimeofday", "getrlimit", "getrusage",
     "sysinfo", "times", "ptrace", "getuid", "syslog", "getgid", "setuid",
     "setgid", "geteuid", "getegid", "setpgid", "getppid", "getpgrp",
     "setsid", "setreuid", "setregid", "getgroups", "setgroups", "setresuid",
     "getresuid", "setresgid", "getresgid", "getpgid", "setfsuid",
     "setfsgid", "getsid", "capget", "capset", "rt_sigpending",
     "rt_sigtimedwait", "rt_sigqueueinfo", "rt_sigsuspend", "sigaltstack",
     "utime", "mknod", "uselib", "personality", "ustat", "statfs", "fstatfs",
     "sysfs", "getpriority", "setpriority", "sched_setparam",
     "sched_getparam", "sched_setscheduler", "sched_getscheduler",
     "sched_get_priority_max", "sched_get_priority_min",
     "sched_rr_get_interval", "mlock", "munlock", "mlockall", "munlockall",
     "vhangup", "modify_ldt", "pivot_root", "_sysctl", "prctl", "arch_prctl",
     "adjtimex", "setrlimit", "chroot", "sync", "acct", "mount", "umount2",
     "swapon", "swapoff", "reboot", "sethostname", "setdomainname", "iopl",
     "ioperm", "create_module", "init_module", "delete_module",
     "get_kernel_syms", "query_module", "quotactl", "nfsservctl", "getpmsg",
     "putpmsg", "afs_syscall", "tuxcall", "security", "gettid", "readahead",
     "setxattr", "lsetxattr", "fsetxattr", "getxattr", "lgetxattr",
     "fgetxattr", "listxattr", "llistxattr", "flistxattr", "removexattr",
     "lremovexattr", "fremovexattr", "tkill", "time", "futex",
     "sched_setaffinity", "sched_getaffinity", "set_thread_area", "io_setup",
     "io_destroy", "io_getevents", "io_submit", "io_cancel",
     "get_thread_area", "lookup_dcookie", "epoll_create", "epoll_ctl_old",
     "epoll_wait_old", "remap_file_pages", "getdents64", "set_tid_address",
     "restart_syscall", "semtimedop", "fadvise64", "timer_create",
     "timer_settime", "timer_gettime", "timer_getoverrun", "timer_delete",
     "clock_settime", "clock_gettime", "clock_getres", "clock_nanosleep",
     "exit_group", "epoll_wait", "epoll_ctl", "tgkill", "utimes", "vserver",
     "mbind", "set_mempolicy", "get_mempolicy", "mq_open", "mq_unlink",
     "mq_timedsend", "mq_timedreceive", "mq_notify", "mq_getsetattr",
     "kexec_load", "waitid", "add_key", "request_key", "keyctl",
     "ioprio_set", "ioprio_get", "inotify_init", "inotify_add_watch",
     "inotify_rm_watch", "migrate_pages", "openat", "mkdirat", "mknodat",
     "fchownat", "futimesat", "newfstatat", "unlinkat", "renameat", "linkat",
     "symlinkat", "readlinkat", "fchmodat", "faccessat", "pselect6", "ppoll",
     "unshare", "set_robust_list", "get_robust_list", "splice", "tee",
     "sync_file_range", "vmsplice", "move_pages", "utimensat", "epoll_pwait",
     "signalfd", "timerfd_create", "eventfd", "fallocate", "timerfd_settime",
     "timerfd_gettime", "accept4", "signalfd4", "eventfd2", "epoll_create1",
     "dup3", "pipe2", "inotify_init1", "preadv", "pwritev",
     "rt_tgsigqueueinfo", "perf_event_open", "recvmmsg", "fanotify_init",
     "fanotify_mark", "prlimit64", "name_to_handle_at", "open_by_handle_at",
     "clock_adjtime", "syncfs", "sendmmsg", "setns", "getcpu",
     "process_vm_readv", "process_vm_writev", "kcmp", "finit_module",
     "sched_setattr", "sched_getattr", "renameat2", "seccomp", "getrandom",
     "memfd_create", "kexec_file_load", "bpf", "execveat", "userfaultfd",
     "membarrier", "mlock2", "copy_file_range", "preadv2", "pwritev2",
     "pkey_mprotect", "pkey_alloc", "pkey_free", "statx", "io_pgetevents",
     "rseq"}

\* SecurityManager._setup_seccomp_profile: the file it writes for a
\* container name and the syscalls the file allows
_setup_seccomp_profile(cname) ==
    [path |-> <<"/etc/docker/seccomp/">> \o cname \o <<".json">>,
     defaultAction |-> "SCMP_ACT_ERRNO",
     allowed |-> SeccompNames]

\* _setup_seccomp_profile run for a container name: the file is written
SetupSeccompProfile ==
    \E cname \in IsoNames :
        LET f == _setup_seccomp_profile(cname)
        IN  /\ profiles' = profiles \cup {<<"seccomp">> \o cname}
            /\ isoOp' = [op |-> "_setup_seccomp_profile", name |-> cname,
                          res |-> "ok",
                          made |-> {<<"seccomp">> \o cname} \ profiles]
            /\ UNCHANGED <<netns, links, routes, nat, coreVars, tunVars, pmVars, opVars>>

\* the isolation code with the profile step also run by itself
NextProfile ==
    \/ NextIso
    \/ SetupSeccompProfile

SpecProfile == IsoAlone /\ [][NextProfile]_vars

\* ------------------------------------------------ lib InstanceManager
\* ContainerManager.list_containers: containers.list(all=True), every
\* container of the host whatever its name or status; [] when the listing
\* raises
list_containers(cs, listing_ok) == IF listing_ok THEN cs ELSE {}

\* InstanceManager.get_running_instances
get_running_instances(cs, listing_ok) == list_containers(cs, listing_ok)

\* f"yashaoxen_earnapp_{len(self.get_running_instances())}"
generate_instance_id(cs, listing_ok) ==
    container_name(Str(Cardinality(get_running_instances(cs, listing_ok))))

\* InstanceManager.create_instance: the id, then the container of that name
\* is created and started (ro is the runtime's answer); any failure raises
im_create_instance(cs, h, listing_ok, ro) ==
    LET instance_id == generate_instance_id(cs, listing_ok)
        r == DockerRun(cs, instance_id, NoProxy, h, ro)
    IN  [cs |-> r.cs, h |-> r.h, id |-> instance_id,
         res |-> IF r.res = "ok" THEN "ok" ELSE "raised"]

\* ContainerManager.stop_container: get, stop; False on any exception
stop_container(cs, name, ok) ==
    IF Named(cs, name) = {} \/ ~ok THEN cs
    ELSE (cs \ Named(cs, name)) \cup {Stopped(c) : c \in Named(cs, name)}

\* ContainerManager.remove_container: get, remove(force=True)
remove_container(cs, name, ok) ==
    IF Named(cs, name) = {} \/ ~ok THEN cs
    ELSE cs \ Named(cs, name)

\* names the stop and remove calls are made with
ImNames == {container_name(Str(n)) : n \in 0..MaxInstances}

ImCreateInstance ==
    \E listing_ok \in BOOLEAN, ro \in RunOutcomes :
        LET r == im_create_instance(containers, nextHandle, listing_ok, ro)
        IN  /\ Runtime(r)
            /\ lastOp' = [op |-> "im_create_instance", res |-> r.res,
                           rejected |-> {}, id |-> r.id]
            /\ hist' = hist

ImStopInstance ==
    \E name \in ImNames, ok \in BOOLEAN :
        /\ containers' = stop_container(containers, name, ok)
        /\ lastOp' = [op |-> "im_stop_instance",
                       res |-> IF ok /\ Named(containers, name) # {} THEN "ok" ELSE "raised",
                       rejected |-> {}]
        /\ UNCHANGED <<nextHandle, hist, Config, isoVars, tunVars, pmVars, opVars>>

ImRemoveContainer ==
    \E name \in ImNames, ok \in BOOLEAN :
        /\ containers' = remove_container(containers, name, ok)
        /\ lastOp' = [op |-> "remove_container",
                       res |-> IF ok /\ Named(containers, name) # {} THEN "ok" ELSE "failed",
                       rejected |-> {}]
        /\ UNCHANGED <<nextHandle, hist, Config, isoVars, tunVars, pmVars, opVars>>

NextInstances ==
    \/ ImCreateInstance
    \/ ImStopInstance
    \/ ImRemoveContainer

SpecInstances == Init /\ [][NextInstances]_vars

\* ------------------------------------------------------------- cleanup
\* YashCore.cleanup: stop_all, whose exception is logged and not passed on
cleanup(cs, failAt, kind) ==
    [cs |-> stop_all(cs, failAt, kind).cs, res |-> "returned"]

Cleanup ==
    \E failAt \in 0..MaxInstances, kind \in {"stop_fail", "remove_fail"} :
        LET r == cleanup(containers, failAt, kind)
        IN  /\ containers' = r.cs
            /\ lastOp' = [op |-> "cleanup", res |-> r.res, rejected |-> {}]
            /\ UNCHANGED <<nextHandle, hist, Config, isoVars, tunVars, pmVars, opVars>>

NextCleanup ==
    \/ StartAll
    \/ StopInstance
    \/ ExternalKill
    \/ Cleanup

SpecCleanup == Init /\ [][NextCleanup]_vars

\* ============================================================== claims
\* the containers an instance id names
Of(cs, instance_id) == Named(cs, container_name(instance_id))

\* C1: when setup_container_isolation raises, nothing that call created is
\* left on the host: no namespace, no interface, no profile file.
C1_RollbackComplete ==
    (isoOp.op = "setup_container_isolation" /\ isoOp.res = "raised")
    => isoOp.made \cap Artifacts(Host) = {}

C3_DistinctNames ==
    \A a, b \in assigned :
        a.inst # b.inst
        => /\ a.tun_name # b.tun_name
           /\ NamespaceName(a.inst) # NamespaceName(b.inst)
           /\ {Veth0(NamespaceName(a.inst)), Veth1(NamespaceName(a.inst))}
                  \cap {Veth0(NamespaceName(b.inst)), Veth1(NamespaceName(b.inst))} = {}

C7_DistinctEndpoints ==
    [][(/\ lastOp'.op = "start_all"
        /\ lastOp'.res = "ok"
        /\ NoDup(proxies)
        /\ num_instances <= Len(proxies))
       => LET made == containers' \ containers
          IN  /\ Cardinality(made) = num_instances
              /\ {c.name : c \in made}
                     = {container_name(StartAllId(i)) : i \in 0..(num_instances - 1)}
              /\ \A c \in made : c.status = "running" /\ c.proxy \in Range(proxies)
              /\ \A c, d \in made : c # d => c.proxy # d.proxy]_vars

C7_Witness ==
    /\ lastOp.op = "start_all"
    /\ lastOp.res = "ok"
    /\ num_instances = 2
    /\ proxies = <<P1, P2>>
    /\ \E c, d \in containers :
           /\ c.name = container_name(StartAllId(0)) /\ c.proxy = P1
           /\ d.name = container_name(StartAllId(1)) /\ d.proxy = P2

\* C5: once a running instance has been stopped with stop_instance and started
\* again with start_instance, it is running and bound to the endpoint it had
\* before the stop.
C5_RestartKeepsEndpoint ==
    hist.st = "restarted"
    => \E c \in Of(containers, hist.id) :
           c.status = "running" /\ c.proxy = hist.proxy

\* C6: a rotation that reports success leaves every instance that was running
\* running under the same name, in the same container (same handle) and with
\* the same security options.
C6_RotationKeepsContainer ==
    [][(lastOp'.op \in {"rotate_proxy", "rotate_proxies"} /\ lastOp'.res = "ok")
       => \A c \in containers :
              c.status = "running"
              => \E d \in containers' :
                     /\ d.name = c.name
                     /\ d.id = c.id
                     /\ d.sec = c.sec
                     /\ d.status = "running"]_vars

\* C8: once an instance whose container was killed from outside has been
\* restarted (stop_instance, then start_instance), it is running under the
\* same instance id and bound to the endpoint it was created with.
C8_RestartAfterKill ==
    hist.st = "restarted_after_kill"
    => \E c \in Of(containers, hist.id) :
           c.status = "running" /\ c.proxy = hist.proxy

\* C9: no operation binds an endpoint that its validation turned down: every
\* container an operation makes carries an endpoint that passed the
\* operation's validation or that the operation did not validate.
C9_BoundPassedValidation ==
    [][\A c \in containers' \ containers : c.proxy \notin lastOp'.rejected]_vars

C9_Witness ==
    /\ lastOp.op = "create_instances"
    /\ lastOp.res = "some_created"
    /\ lastOp.rejected = {P1}
    /\ \E c \in containers : c.proxy = P2 /\ c.status = "running"

C11_TeardownAttemptsAll ==
    [][lastOp'.op = "stop_all"
       => Cardinality({c \in containers :
                          /\ c.status = "running"
                          /\ \E d \in containers' : d.id = c.id}) <= 1]_vars

\* the profile files setup_container_isolation stores for a container name
ProfilesOf(cname) == {<<"seccomp">> \o cname, <<"apparmor">> \o cname}

\* C12: every running instance has its network namespace and its stored
\* security profiles, and a namespace or a stored profile is on the host
\* only for an instance that is running.
C12_OneNamespaceAndProfile ==
    /\ \A c \in containers :
           c.status = "running"
           => NamespaceName(c.name) \in netns /\ ProfilesOf(c.name) \subseteq profiles
    /\ \A n \in netns :
           \E c \in containers : c.status = "running" /\ n = NamespaceName(c.name)
    /\ \A p \in profiles :
           \E c \in containers : c.status = "running" /\ p \in ProfilesOf(c.name)

\* C13: operations on one instance id are serialized: no two processes are
\* inside an operation (between its first and its last runtime call) on the
\* same instance id at the same time.
C13_SerializedPerInstance ==
    \A p, q \in Procs :
        (p # q /\ ops[p] # NoProc /\ ops[q] # NoProc) => ops[p].id # ops[q].id

\* C14: two concurrent get_next_proxy calls on a list of two or more
\* entries return two different entries of the list, and the index has
\* advanced by exactly two (modulo the length) when both have returned.
C14_ConcurrentNextDistinct ==
    (Len(pm_proxies) >= 2 /\ \A p \in Procs : calls[p].at = "returned")
    => /\ \A p, q \in Procs : p # q => calls[p].idx # calls[q].idx
       /\ current_index = 2 % Len(pm_proxies)

\* C15: on a list that nothing changes, get_next_proxy returns the entries
\* in list order: the first call the first entry, every further call the
\* entry behind the one returned last, and the first again after the last;
\* so any Len(pm_proxies) calls in a row return every entry once. What is
\* returned is always an entry of the loaded list.
C15_RoundRobin ==
    [][(pm_proxies # <<>> /\ GetNextProxy)
       => /\ pmOp'.res = "ok"
          /\ pmOp'.idx = IF pmOp.op = "load" THEN 0
                         ELSE (pmOp.idx + 1) % Len(pm_proxies)
          /\ pmOp'.ret = Handout(pm_kind, pm_proxies[pmOp'.idx + 1])
          /\ current_index' = (pmOp'.idx + 1) % Len(pm_proxies)]_vars

\* the last of three entries has been returned and the index is back at
\* the first
C15_Witness ==
    /\ pmOp.op = "get_next_proxy"
    /\ Len(pm_proxies) = 3
    /\ pmOp.idx = 2
    /\ pmOp.ret = Handout(pm_kind, pm_proxies[3])
    /\ current_index = 0

\* C16: with an empty list get_next_proxy raises an error and leaves the
\* index as it is.
C16_EmptyListRaises ==
    [][(pm_proxies = <<>> /\ GetNextProxy)
       => pmOp'.res = "raised" /\ current_index' = current_index]_vars

\* C19: a line of the proxy file that is not well-formed is turned down on
\* its own: every well-formed line of the file is in the list after loading
\* (ProxyManager and NetworkManager, which do not probe the proxies).
C19_MalformedRejectedAlone ==
    (pmOp.op = "load" /\ pm_kind \in {"ProxyManager", "NetworkManager"})
    => \A k \in 1..Len(pm_file) :
           Unpacks(pm_file[k])
           => \E j \in 1..Len(pm_proxies) :
                  pm_proxies[j] = IF pm_kind = "NetworkManager"
                                  THEN ProxyDict(pm_file[k]) ELSE pm_file[k]

\* C20: no operation deletes an endpoint: every endpoint that was loaded or
\* added at some time is still in the list.
C20_NeverDeleted == ever \subseteq Range(pm_proxies)

\* C17: cleanup_tunnel takes an instance's host resources away in the
\* reverse of the order in which setup_proxy made them: what it removes, in
\* its order, is the resources the instance has on the host, last made
\* first.
C17_ReverseOrderTeardown ==
    [][tunOp'.op = "cleanup_tunnel"
       => \A a \in assigned :
              a.inst = tunOp'.inst
              => cleanup_order(Tunnels, active_tunnels, a)
                 = Reverse(CreatedOrder(Tunnels, a))]_vars

\* C18: stopping an instance that is not there (as a second stop right
\* after the first is) reports no error and changes nothing.
C18_TeardownIdempotent ==
    [][(lastOp'.op = "stop_instance" /\ containers = {})
       => lastOp'.res = "ok" /\ containers' = containers]_vars

\* the subnet of an interface address
Subnet(addr) ==
    CASE addr \in {"10.0.0.1/24", "10.0.0.2/24"} -> "10.0.0.0/24"
      [] OTHER -> "none"

\* C21: the addresses given to the interfaces of two instances never
\* overlap: no two host-side interfaces of different veth pairs have
\* addresses in the same subnet.
C21_DisjointSubnets ==
    \A l1, l2 \in links :
        (/\ l1.ns = HostNs /\ l2.ns = HostNs
         /\ l1.name # l2.name
         /\ l1.addr # "none" /\ l2.addr # "none")
        => Subnet(l1.addr) # Subnet(l2.addr)

\* C22: a container is created only after the network step and the
\* security-profile step for it went through: when a container appears,
\* its namespace and its stored profiles are on the host already.
C22_ProvisionBeforeCreate ==
    [][\A c \in containers' :
           (\A d \in containers : d.id # c.id)
           => /\ NamespaceName(c.name) \in netns
              /\ ProfilesOf(c.name) \subseteq profiles]_vars

\* syscalls that change identity or capabilities, trace processes, change
\* mounts, roots or namespaces, or load code into the kernel
EscalationSyscalls ==
    {"setuid", "setgid", "setreuid", "setregid", "setresuid", "setresgid",
     "setfsuid", "setfsgid", "setgroups", "capset", "ptrace", "mount", "umount2",
     "pivot_root", "chroot", "setns", "unshare", "create_module", "init_module",
     "finit_module", "delete_module", "kexec_load", "kexec_file_load", "bpf"}

\* C23: the syscall allow-list written for a container allows no
\* capability-escalation syscall.
C23_NoEscalationSyscalls ==
    \A cname \in IsoNames :
        (<<"seccomp">> \o cname) \in profiles
        => _setup_seccomp_profile(cname).allowed \cap EscalationSyscalls = {}


C25_CleanupLeavesNone ==
    lastOp.op = "cleanup" => \A c \in containers : PFX \notin Range(c.name)


\* C26: the rotation index of a ProxyManager is a position of the current
\* list after any sequence of get_next_proxy, add_proxy, remove_proxy and
\* cleanup_dead_proxies, and get_next_proxy never fails by an index out of
\* range and hands out a member of the current list.
C26_IndexInRange ==
    (Constructed /\ pm_kind = "ProxyManager")
        => /\ pm_proxies # <<>> => current_index \in 0..(Len(pm_proxies) - 1)
           /\ pmOp.op = "get_next_proxy" => pmOp.res # "index_error"
           /\ (pmOp.op = "get_next_proxy" /\ pmOp.res = "ok") => pmOp.ret \in Range(pm_proxies)


\* C27: cleanup_tunnel(id) removes the policy rule and the packet mark under
\* the table id that setup_proxy(id) installed them with: after it none of
\* id's rules or marks is left (where the table id is id's alone), and a
\* rule of another instance is still there.
C27_CleanupRemovesOwnRules ==
    [][tunOp'.op = "cleanup_tunnel"
       => /\ \A a \in assigned :
                 (/\ a.inst = tunOp'.inst
                  /\ a.table_id # 0
                  /\ \A b \in assigned : b.table_id = a.table_id => b = a)
                 => /\ a.table_id \notin rules'
                    /\ \A k \in 1..Len(mangle') : mangle'[k] # a.table_id
          /\ \A b \in assigned :
                 (b.inst # tunOp'.inst /\ b.table_id \in rules)
                 => b.table_id \in rules']_vars

\* C28: active_tunnels holds an entry for exactly the instances that have a
\* tunnel device on the host: a setup_proxy that returned False has left
\* none, and cleanup_tunnel leaves neither device nor entry.
C28_TrackedIffArtifacts ==
    \A i \in TunIds :
        (\E a \in active_tunnels : a.inst = i)
        <=> (\E a \in assigned : a.inst = i /\ a.tun_name \in tuns)


\* C29: the creation loop of create-instances ends for every finite list of
\* validated proxies, has attempted each of them exactly once, and ends with
\* created + failed equal to the number of validated proxies.
C29_EachProxyOnce ==
    lastOp.op = "create_instances"
        => /\ lastOp.walked = lastOp.validated
           /\ lastOp.created + lastOp.failed = lastOp.validated


\* C30: a rotate_proxy(id, p) that returns True leaves the instance id
\* existing, running and bound to p; one that returns False leaves every
\* container as it was before the call.
C30_RotateAllOrNothing ==
    [][\A i \in InstanceIds, p \in Endpoints \cup {NoProxy}, kind \in RotateOutcomes :
         RotateProxyWith(i, p, kind)
         => /\ lastOp'.res = "ok"
               => \E c \in Of(containers', i) : c.status = "running" /\ c.proxy = p
            /\ lastOp'.res # "ok" => containers' = containers]_vars

====
